---------------------------- MODULE Spec2Model ----------------------------
(***************************************************************************)
(* A model of the `uninhibited` event library: the handler containers      *)
(* (uninhibited/containers.py), the synchronous Event and PriorityEvent    *)
(* (uninhibited/events.py) and the asyncio Event mixin                     *)
(* (uninhibited/async/__init__.py).                                        *)
(***************************************************************************)
EXTENDS Integers, Sequences, FiniteSets, TLC

(***************************************************************************)
(* Bounds of the model.                                                    *)
(***************************************************************************)
\* the largest number of entries a handler container is grown to
MaxLen == 3

\* the largest number of handlers registered on the async event
MaxAsyncLen == 3

\* the longest list of handlers of an async event that is fired twice at a time
MaxConcurrentLen == 2

\* the longest list of handlers of an async event whose fire is awaited as
\* a whole
MaxLiveLen == 2

\* the longest list of handler objects of a Dispatch
MaxDispatchLen == 2

\* the longest list of bound methods of an Event of a Dispatch
MaxAttached == 3

(***************************************************************************)
(* The environment: handlers, priorities and call arguments.               *)
(***************************************************************************)
\* The callables registered as handlers.  "f" and "g" return a value (as
\* test and test2 of tests/test_events.py do), "boom" raises (as atest4 of
\* tests/test_async.py does).
Handlers == {"f", "g", "boom"}

Raising == {"boom"}

\* The handlers registered on the async event.  "atest" is an async def,
\* "atest2" a generator function under @asyncio.coroutine, "atest4" an
\* async def that raises (tests/test_async.py); "test" is a plain function
\* (tests/test_events.py).
AsyncHandlers == {"atest", "atest2", "atest4", "test"}

\* inspect.iscoroutinefunction(handler) or inspect.isgeneratorfunction(handler)
IsCoroutineOrGeneratorFunction(h) == h \in {"atest", "atest2", "atest4"}

AsyncRaising == {"atest4"}

\* a function object, and the functools.partial object built from one
Function(h) == [t |-> "function", v |-> <<h>>]

Partial(h, args, kwargs) == [t |-> "partial", v |-> <<h, args, kwargs>>]

\* add_handler(handler, priority=10)
DefaultPriority == 10

\* the priorities the tests register handlers under
Priorities == {0, DefaultPriority, 500}

\* Python values that are passed around as *args / **kwargs: a tuple is
\* [t |-> "tuple", v |-> <<values>>], a dict is [t |-> "dict", v |-> <<keys>>]
\* (its keys in insertion order; iterating a dict yields its keys), a list
\* of handlers is [t |-> "list", v |-> <<handlers>>].
PyTuple(s) == [t |-> "tuple", v |-> s]

PyDict(keys) == [t |-> "dict", v |-> keys]

PyList(s) == [t |-> "list", v |-> s]

\* the default of the `handlers` parameter of Event._results
_sentinel == [t |-> "sentinel", v |-> <<>>]

\* the (args, kwargs) that fire is called with: fire(1) and fire(k=...)
CallArgs == {<<PyTuple(<<1>>), PyDict(<<>>)>>, <<PyTuple(<<>>), PyDict(<<"k">>)>>}

NoValue == [t |-> "none", v |-> <<>>]

VARIABLES
    major,      \* the major version of the Python that runs the package
    cls,        \* the class of the event object: "Event" or "PriorityEvent"
    handlers,   \* ListHandlerCollection.handlers: a list of handlers
    map,        \* SortedDictPriorityHandlerCollection.map: priority -> list
    weakmap,    \* SortedDictPriorityHandlerCollection.weakmap: handler -> priority
    gen,        \* the generator returned by the latest Event.ifire call: the
                \* position of its list iterator, its arguments, how many
                \* elements were requested of it, the invocations it made,
                \* whether the container changed under it, and the
                \* invocations of the call before it
    calls,      \* the handler invocations made by the latest call
    ret,        \* the latest call on the event object and its outcome
    fit,        \* the EventFireIter returned by the latest async fire call:
                \* how far its generator has come, the arguments of the
                \* call, the unit anext is suspended on, and whether next()
                \* was called on it
    units,      \* what AsyncEventMixin._call_handler has built, one per call
    delivered,  \* the (handler, result) pairs the consumer has received
    agg,        \* the aggregation the consumer called on the EventFireIter:
                \* gather, as_completed or wait, and how far it has come
    finished,   \* the units in the order in which their futures became done
    dispatch,   \* a Dispatch: its list of handler objects, its mapping of
                \* event names to events (each the list of bound methods of
                \* its ListHandlerCollection), its create_events_on_fire
                \* and the latest call on it with its outcome
    other       \* a second fire call on the same async event, made while
                \* the first is under way: its EventFireIter, its units and
                \* the pairs its consumer has received

syncVars == <<map, weakmap, gen, calls, ret>>

asyncVars == <<fit, units, delivered, agg, finished>>

vars == <<major, cls, handlers, map, weakmap, gen, calls, ret, fit, units, delivered,
          agg, finished, other, dispatch>>

(***************************************************************************)
(* Helpers on sequences.                                                   *)
(***************************************************************************)
Range(s) == {s[i] : i \in DOMAIN s}

Count(s, x) == Cardinality({i \in DOMAIN s : s[i] = x})

\* list.remove(x): delete the first occurrence of x
RemoveFirst(s, x) ==
    LET i == CHOOSE j \in DOMAIN s : s[j] = x /\ \A k \in 1..(j - 1) : s[k] # x
    IN  SubSeq(s, 1, i - 1) \o SubSeq(s, i + 1, Len(s))

\* the keys of a SortedDict in ascending order
RECURSIVE SortedKeys(_)
SortedKeys(S) ==
    IF S = {} THEN <<>>
    ELSE LET m == CHOOSE x \in S : \A y \in S : x <= y
         IN  <<m>> \o SortedKeys(S \ {m})

RECURSIVE Flatten(_)
Flatten(ss) ==
    IF ss = <<>> THEN <<>> ELSE Head(ss) \o Flatten(Tail(ss))

(***************************************************************************)
(* containers.py: ListHandlerCollection.                                   *)
(***************************************************************************)
\* an add_handler that keeps a handler the list holds at one occurrence
ListAddUnlessPresent(hs, h) == IF h \in Range(hs) THEN hs ELSE Append(hs, h)

\* add_handler: self.handlers.append(handler)
List_add_handler(hs, h) == Append(hs, h)

\* a remove_handler that drops every occurrence of the handler
ListRemoveEveryOccurrence(hs, h) ==
    IF h \in Range(hs)
    THEN [handlers |-> SelectSeq(hs, LAMBDA x : x # h), err |-> "none"]
    ELSE [handlers |-> hs, err |-> "ValueError"]

\* remove_handler: self.handlers.remove(handler); list.remove raises
\* ValueError when the handler is not in the list
List_remove_handler(hs, h) ==
    IF h \in Range(hs)
    THEN [handlers |-> RemoveFirst(hs, h), err |-> "none"]
    ELSE [handlers |-> hs, err |-> "ValueError"]

(***************************************************************************)
(* containers.py: SortedDictPriorityHandlerCollection.                     *)
(***************************************************************************)
\* an add_handler that inserts at the head of the priority's list
SortedDictAddAtHead(m, w, h, p) ==
    LET m1 == IF p \notin DOMAIN m THEN m @@ (p :> <<>>) ELSE m
        m2 == [m1 EXCEPT ![p] = <<h>> \o m1[p]]
        w2 == [x \in DOMAIN w \cup {h} |-> IF x = h THEN p ELSE w[x]]
    IN  [map |-> m2, weakmap |-> w2]

\* add_handler: create the priority's list if missing, append the handler,
\* then weakmap[handler] = priority
SortedDict_add_handler(m, w, h, p) ==
    LET m1 == IF p \notin DOMAIN m THEN m @@ (p :> <<>>) ELSE m
        m2 == [m1 EXCEPT ![p] = Append(m1[p], h)]
        w2 == [x \in DOMAIN w \cup {h} |-> IF x = h THEN p ELSE w[x]]
    IN  [map |-> m2, weakmap |-> w2]

\* a remove_handler that pops with a default: weakmap.pop(handler, None)
SortedDictRemoveIgnoringMissing(m, w, h) ==
    IF h \notin DOMAIN w
    THEN [map |-> m, weakmap |-> w, err |-> "none"]
    ELSE LET p  == w[h]
             w2 == [x \in DOMAIN w \ {h} |-> w[x]]
             l  == RemoveFirst(m[p], h)
         IN  IF l = <<>>
             THEN [map |-> [q \in DOMAIN m \ {p} |-> m[q]],
                   weakmap |-> w2, err |-> "none"]
             ELSE [map |-> [m EXCEPT ![p] = l], weakmap |-> w2, err |-> "none"]

\* a remove_handler that keeps the list of a priority it has emptied
SortedDictRemoveKeepingEmptyList(m, w, h) ==
    IF h \notin DOMAIN w
    THEN [map |-> m, weakmap |-> w, err |-> "KeyError"]
    ELSE LET p  == w[h]
             w2 == [x \in DOMAIN w \ {h} |-> w[x]]
         IN  IF p \notin DOMAIN m
             THEN [map |-> m, weakmap |-> w2, err |-> "KeyError"]
             ELSE IF h \notin Range(m[p])
             THEN [map |-> m, weakmap |-> w2, err |-> "ValueError"]
             ELSE [map |-> [m EXCEPT ![p] = RemoveFirst(m[p], h)],
                   weakmap |-> w2, err |-> "none"]

\* remove_handler: priority = weakmap.pop(handler) (KeyError when missing),
\* map[priority].remove(handler), and the priority is deleted once its list
\* is empty.  Each statement takes effect before the next one can raise.
SortedDict_remove_handler(m, w, h) ==
    IF h \notin DOMAIN w
    THEN [map |-> m, weakmap |-> w, err |-> "KeyError"]
    ELSE LET p  == w[h]
             w2 == [x \in DOMAIN w \ {h} |-> w[x]]
         IN  IF p \notin DOMAIN m
             THEN [map |-> m, weakmap |-> w2, err |-> "KeyError"]
             ELSE IF h \notin Range(m[p])
             THEN [map |-> m, weakmap |-> w2, err |-> "ValueError"]
             ELSE LET l == RemoveFirst(m[p], h)
                  IN  IF l = <<>>
                      THEN [map |-> [q \in DOMAIN m \ {p} |-> m[q]],
                            weakmap |-> w2, err |-> "none"]
                      ELSE [map |-> [m EXCEPT ![p] = l],
                            weakmap |-> w2, err |-> "none"]

\* iter_handlers_by_priority: self.map.iteritems(), the (priority, list)
\* items of the SortedDict in ascending key order
iter_handlers_by_priority(m) ==
    LET ks == SortedKeys(DOMAIN m)
    IN  [i \in 1..Len(ks) |-> <<ks[i], m[ks[i]]>>]

\* PriorityHandlerCollection.iter_handlers: every handler of every priority
PriorityIterHandlers(m) ==
    LET items == iter_handlers_by_priority(m)
    IN  Flatten([i \in 1..Len(items) |-> items[i][2]])

\* the handlers with the priority they are stored under, in iteration order
PriorityIterPairs(m) ==
    LET items == iter_handlers_by_priority(m)
    IN  Flatten([i \in 1..Len(items) |->
                   [j \in 1..Len(items[i][2]) |-> <<items[i][1], items[i][2][j]>>]])

(***************************************************************************)
(* events.py: Event and PriorityEvent.                                     *)
(***************************************************************************)
\* Event.handlers: self.container.iter_handlers()
EventHandlers ==
    IF cls = "Event" THEN handlers ELSE PriorityIterHandlers(map)

\* the outcome of handler(*args, **kwargs): calling something that is not
\* callable, or unpacking ** from something that is not a mapping, raises
\* TypeError; "boom" raises; the others return what they were called with
Invoked(h, args, kwargs) == h \in Handlers /\ kwargs.t = "dict"

\* what a value-returning handler returns: what it was called with, as
\* test2 of tests/test_events.py does
ReturnValue(h, args, kwargs) == [t |-> h, v |-> <<args, kwargs>>]

_call_handler(h, args, kwargs) ==
    IF ~Invoked(h, args, kwargs)
    THEN [err |-> "TypeError", value |-> NoValue]
    ELSE IF h \in Raising
    THEN [err |-> "Exception", value |-> NoValue]
    ELSE [err |-> "none", value |-> ReturnValue(h, PyTuple(args.v), kwargs)]

\* What the generator of Event._results iterates: self.handlers when the
\* handlers parameter is the sentinel, else the items of what was passed
ResultsItems(hs) ==
    IF hs = _sentinel THEN EventHandlers ELSE hs.v

\* list(...) of the generator ((h, _call_handler(h, args, kwargs)) for h in
\* items), from item i on: the pairs collected, the invocations made, and
\* the error that ended it, if any
RECURSIVE Drain(_, _, _, _, _, _)
Drain(items, i, args, kwargs, pairs, log) ==
    IF i > Len(items)
    THEN [pairs |-> pairs, calls |-> log, err |-> "none"]
    ELSE LET h    == items[i]
             r    == _call_handler(h, args, kwargs)
             log2 == IF Invoked(h, args, kwargs)
                     THEN Append(log, <<h, PyTuple(args.v), kwargs>>)
                     ELSE log
         IN  IF r.err # "none"
             THEN [pairs |-> pairs, calls |-> log2, err |-> r.err]
             ELSE Drain(items, i + 1, args, kwargs,
                        Append(pairs, <<h, r.value>>), log2)

\* a _results whose generator loses the first handler
ResultsSkippingFirst(args, kwargs, hs) ==
    Drain(ResultsItems(hs), 2, args, kwargs, <<>>, <<>>)

\* Event._results(args, kwargs, handlers=_sentinel), consumed to its end
_results(args, kwargs, hs) ==
    Drain(ResultsItems(hs), 1, args, kwargs, <<>>, <<>>)

\* PriorityEvent.ifire_by_priority, consumed by fire_by_priority: for each
\* (priority, handlers) item, (priority, list(self._results(handlers, args,
\* kwargs))); an error raised in one priority ends the whole call
RECURSIVE FireByPriorityFrom(_, _, _, _, _, _)
FireByPriorityFrom(items, i, args, kwargs, out, log) ==
    IF i > Len(items)
    THEN [value |-> out, calls |-> log, err |-> "none"]
    ELSE LET r == _results(PyList(items[i][2]), args, kwargs)
         IN  IF r.err # "none"
             THEN [value |-> out, calls |-> log \o r.calls, err |-> r.err]
             ELSE FireByPriorityFrom(items, i + 1, args, kwargs,
                                     Append(out, <<items[i][1], r.pairs>>),
                                     log \o r.calls)

fire_by_priority(args, kwargs) ==
    FireByPriorityFrom(iter_handlers_by_priority(map), 1, args, kwargs, <<>>, <<>>)

(***************************************************************************)
(* The state machine of one event object.                                  *)
(***************************************************************************)
NoGen == [state |-> "none", idx |-> 0, args |-> NoValue, kwargs |-> NoValue,
          requested |-> 0, calls |-> <<>>, dirty |-> FALSE, past |-> <<>>]

Returned(op, h, p, a, value, err) ==
    [op |-> op, h |-> h, p |-> p, args |-> a[1], kwargs |-> a[2],
     value |-> value, err |-> err]

NoArgs == <<NoValue, NoValue>>

NoIter == [state |-> "none", idx |-> 0, args |-> NoValue, kwargs |-> NoValue,
           waiting |-> 0, byNext |-> FALSE]

\* no second fire call was made
NoOther == [fit |-> NoIter, units |-> <<>>, delivered |-> <<>>]

\* no aggregation was called on the EventFireIter
NoDispatch == [handlers |-> <<>>, events |-> <<>>,
               create_events_on_fire |-> TRUE,
               ret |-> [op |-> "none", names |-> {}, name |-> "",
                        handler |-> "", flag |-> FALSE,
                        value |-> NoValue, err |-> "none"]]

NoAgg == [kind |-> "none", state |-> "none", from |-> 0, at |-> 0,
          value |-> <<>>, err |-> "none", queue |-> <<>>, yielded |-> <<>>]

\* a generator whose list was changed by add or remove since ifire made it
Touched(g, changed) ==
    IF g.state # "none" /\ changed
    THEN [g EXCEPT !.dirty = TRUE, !.past = <<>>]
    ELSE g

\* the Pythons the package is written for: six and the guarded import of
\* the asyncio part make it one code base for Python 2 and Python 3
PythonMajors == {2, 3}

\* Event() or PriorityEvent(): __init__ builds an empty container
Init ==
    /\ major \in PythonMajors
    /\ cls \in {"Event", "PriorityEvent"}
    /\ handlers = <<>>
    /\ map = <<>>
    /\ weakmap = <<>>
    /\ gen = NoGen
    /\ calls = <<>>
    /\ ret = Returned("init", "", DefaultPriority, NoArgs, <<>>, "none")
    /\ fit = NoIter
    /\ units = <<>>
    /\ delivered = <<>>
    /\ agg = NoAgg
    /\ finished = <<>>
    /\ other = NoOther
    /\ dispatch = NoDispatch

\* Event.add(handler): self.container.add_handler(handler)
EventAdd(h) ==
    /\ cls = "Event"
    /\ Len(handlers) < MaxLen
    /\ handlers' = List_add_handler(handlers, h)
    /\ gen' = Touched(gen, handlers' # handlers)
    /\ calls' = <<>>
    /\ ret' = Returned("add", h, DefaultPriority, NoArgs, <<>>, "none")
    /\ UNCHANGED <<dispatch, other, major, cls, map, weakmap>>
    /\ UNCHANGED asyncVars

\* PriorityEvent.add(handler, priority=10):
\* self.container.add_handler(handler, priority=priority)
PriorityEventAdd(h, p) ==
    /\ cls = "PriorityEvent"
    /\ Len(PriorityIterHandlers(map)) < MaxLen
    /\ LET r == SortedDict_add_handler(map, weakmap, h, p)
       IN  /\ map' = r.map
           /\ weakmap' = r.weakmap
    /\ ret' = Returned("add", h, p, NoArgs, <<>>, "none")
    /\ calls' = <<>>
    /\ UNCHANGED <<dispatch, other, major, cls, handlers, gen>>
    /\ UNCHANGED asyncVars

\* Event.remove(handler): self.container.remove_handler(handler); whatever
\* the container raises reaches the caller
EventRemove(h) ==
    /\ cls = "Event"
    /\ LET r == List_remove_handler(handlers, h)
       IN  /\ handlers' = r.handlers
           /\ ret' = Returned("remove", h, DefaultPriority, NoArgs, <<>>, r.err)
    /\ gen' = Touched(gen, handlers' # handlers)
    /\ calls' = <<>>
    /\ UNCHANGED <<dispatch, other, major, cls, map, weakmap>>
    /\ UNCHANGED asyncVars

PriorityEventRemove(h) ==
    /\ cls = "PriorityEvent"
    /\ LET r == SortedDict_remove_handler(map, weakmap, h)
       IN  /\ map' = r.map
           /\ weakmap' = r.weakmap
           /\ ret' = Returned("remove", h, DefaultPriority, NoArgs, <<>>, r.err)
    /\ calls' = <<>>
    /\ UNCHANGED <<dispatch, other, major, cls, handlers, gen>>
    /\ UNCHANGED asyncVars

\* a fire that takes out of the container the handlers it has called
FireConsumingHandlers(a) ==
    /\ LET r == _results(a[1], a[2], _sentinel)
       IN  /\ calls' = r.calls
           /\ ret' = Returned("fire", "", DefaultPriority, a,
                              IF r.err = "none" THEN r.pairs ELSE <<>>, r.err)
    /\ gen' = NoGen
    /\ handlers' = <<>>
    /\ map' = <<>>
    /\ weakmap' = <<>>
    /\ UNCHANGED <<dispatch, other, major, cls>>
    /\ UNCHANGED asyncVars

\* Event.fire(*args, **kwargs): list(self._results(args, kwargs))
Fire(a) ==
    /\ LET r == _results(a[1], a[2], _sentinel)
       IN  /\ calls' = r.calls
           /\ ret' = Returned("fire", "", DefaultPriority, a,
                              IF r.err = "none" THEN r.pairs ELSE <<>>, r.err)
    /\ gen' = NoGen
    /\ UNCHANGED <<dispatch, other, major, cls, handlers, map, weakmap>>
    /\ UNCHANGED asyncVars

\* PriorityEvent.fire_by_priority(*args, **kwargs)
FireByPriority(a) ==
    /\ cls = "PriorityEvent"
    /\ LET r == fire_by_priority(a[1], a[2])
       IN  /\ calls' = r.calls
           /\ ret' = Returned("fire_by_priority", "", DefaultPriority, a,
                              IF r.err = "none" THEN r.value ELSE <<>>, r.err)
    /\ gen' = NoGen
    /\ UNCHANGED <<dispatch, other, major, cls, handlers, map, weakmap>>
    /\ UNCHANGED asyncVars

\* the invocations of the generator of the previous ifire call, when that
\* generator was consumed to its end and the container is what it was then
ConsumedBefore(g) ==
    IF g.state = "finished" /\ ~g.dirty THEN <<g.calls>> ELSE <<>>

\* an ifire that hands out again what the previous call computed
IfireCached(a) ==
    /\ cls = "Event"
    /\ gen' = [state |-> IF gen.state = "finished" THEN "finished"
                         ELSE "suspended",
               idx |-> 0, args |-> a[1], kwargs |-> a[2],
               requested |-> 0, calls |-> <<>>, dirty |-> FALSE,
               past |-> ConsumedBefore(gen)]
    /\ calls' = <<>>
    /\ ret' = Returned("ifire", "", DefaultPriority, a, <<>>, "none")
    /\ UNCHANGED <<dispatch, other, major, cls, handlers, map, weakmap>>
    /\ UNCHANGED asyncVars

\* Event.ifire(*args, **kwargs): return self._results(args, kwargs).  The
\* generator expression takes iter(self.handlers) at once and calls nothing
\* until it is advanced.  A new fire call abandons the previous generator.
Ifire(a) ==
    /\ cls = "Event"
    /\ gen' = [state |-> "suspended", idx |-> 0, args |-> a[1], kwargs |-> a[2],
               requested |-> 0, calls |-> <<>>, dirty |-> FALSE,
               past |-> ConsumedBefore(gen)]
    /\ calls' = <<>>
    /\ ret' = Returned("ifire", "", DefaultPriority, a, <<>>, "none")
    /\ UNCHANGED <<dispatch, other, major, cls, handlers, map, weakmap>>
    /\ UNCHANGED asyncVars

\* a generator that computes one element ahead of the one requested
GenStepLookingAhead(g, hs) ==
    IF g.idx >= Len(hs)
    THEN [gen |-> [g EXCEPT !.state = "finished", !.requested = @ + 1],
          value |-> <<>>, err |-> "StopIteration"]
    ELSE LET h == hs[g.idx + 1]
             r == _call_handler(h, g.args, g.kwargs)
             c == <<<<h, PyTuple(g.args.v), g.kwargs>>>>
             d == IF g.idx + 2 <= Len(hs)
                  THEN <<<<hs[g.idx + 2], PyTuple(g.args.v), g.kwargs>>>> ELSE <<>>
         IN  [gen |-> [g EXCEPT !.idx = @ + 1, !.requested = @ + 1,
                                !.calls = @ \o c \o d],
              value |-> <<<<h, r.value>>>>, err |-> r.err]

\* One step of the generator of Event._results over the list iterator: the
\* iterator reads the live list at its index; past the end the generator is
\* finished (StopIteration); an error raised by the handler leaves the
\* generator finished as well.
GenStep(g, hs) ==
    IF g.idx >= Len(hs)
    THEN [gen |-> [g EXCEPT !.state = "finished", !.requested = @ + 1],
          value |-> <<>>, err |-> "StopIteration"]
    ELSE LET h == hs[g.idx + 1]
             r == _call_handler(h, g.args, g.kwargs)
             c == IF Invoked(h, g.args, g.kwargs)
                  THEN <<<<h, PyTuple(g.args.v), g.kwargs>>>> ELSE <<>>
         IN  IF r.err # "none"
             THEN [gen |-> [g EXCEPT !.state = "finished", !.idx = @ + 1,
                                     !.requested = @ + 1, !.calls = @ \o c],
                   value |-> <<>>, err |-> r.err]
             ELSE [gen |-> [g EXCEPT !.idx = @ + 1, !.requested = @ + 1,
                                     !.calls = @ \o c],
                   value |-> <<<<h, r.value>>>>, err |-> "none"]

\* next(generator), by the consumer of ifire
GenNext ==
    /\ gen.state = "suspended"
    /\ LET r == GenStep(gen, handlers)
       IN  /\ gen' = r.gen
           /\ calls' = SubSeq(r.gen.calls, Len(gen.calls) + 1, Len(r.gen.calls))
           /\ ret' = Returned("next", "", DefaultPriority, <<gen.args, gen.kwargs>>,
                              r.value, r.err)
    /\ UNCHANGED <<dispatch, other, major, cls, handlers, map, weakmap>>
    /\ UNCHANGED asyncVars

Next ==
    \/ \E h \in Handlers : EventAdd(h)
    \/ \E h \in Handlers, p \in Priorities : PriorityEventAdd(h, p)
    \/ \E h \in Handlers : EventRemove(h)
    \/ \E h \in Handlers : PriorityEventRemove(h)
    \/ \E a \in CallArgs : Fire(a)
    \/ \E a \in CallArgs : FireByPriority(a)
    \/ \E a \in CallArgs : Ifire(a)
    \/ GenNext

Spec == Init /\ [][Next]_vars

(***************************************************************************)
(* async/__init__.py: AsyncEvent, an Event with a list container whose     *)
(* fire returns an EventFireIter over a generator of awaitables.           *)
(***************************************************************************)
\* every list of at most n async handlers, none of them twice
RECURSIVE ListsUpTo(_)
ListsUpTo(n) ==
    IF n = 0 THEN {<<>>}
    ELSE LET shorter == ListsUpTo(n - 1)
         IN  shorter \cup
             UNION {{Append(l, h) : h \in AsyncHandlers \ Range(l)} :
                        l \in shorter}

\* an AsyncEvent after some handlers were added to it, each of them once
AsyncInit ==
    /\ major = 3
    /\ cls = "AsyncEvent"
    /\ handlers \in ListsUpTo(MaxAsyncLen)
    /\ map = <<>>
    /\ weakmap = <<>>
    /\ gen = NoGen
    /\ calls = <<>>
    /\ ret = Returned("init", "", DefaultPriority, NoArgs, <<>>, "none")
    /\ fit = NoIter
    /\ units = <<>>
    /\ delivered = <<>>
    /\ agg = NoAgg
    /\ finished = <<>>
    /\ other = NoOther
    /\ dispatch = NoDispatch

\* the arguments of an async fire call: ape.ifire('arg1')
AsyncCallArgs == {<<PyTuple(<<1>>), PyDict(<<>>)>>}

\* AsyncEventMixin._call_handler(handler=..., args=..., kwargs=...,
\* start=True).  A coroutine or generator function is called, which makes a
\* coroutine whose body has not run, and ensure_future wraps it in a task
\* that the loop is to start.  Any other callable is rebound to
\* functools.partial(handler, *args, **kwargs) and handed to run_in_executor,
\* whose worker is to start it.  The awaitable returned is
\* _result_tuple(handler, f), with whatever `handler` names by then.
Async_call_handler(h, args, kwargs) ==
    IF IsCoroutineOrGeneratorFunction(h)
    THEN [h |-> h, first |-> Function(h), args |-> args, kwargs |-> kwargs,
          on |-> "loop", f |-> "scheduled", wrapper |-> "created"]
    ELSE [h |-> h, first |-> Partial(h, args, kwargs), args |-> args,
          kwargs |-> kwargs, on |-> "executor", f |-> "scheduled",
          wrapper |-> "created"]

\* AsyncEventMixin.ifire / fire: self._results(args, kwargs), an
\* EventFireIter over the generator (meth(handler=handler) for handler in
\* handlers); no handler is touched until the generator is advanced.  A new
\* fire call abandons what the previous one left.
AsyncFire(a) ==
    /\ cls = "AsyncEvent"
    /\ fit' = [state |-> "open", idx |-> 0, args |-> a[1], kwargs |-> a[2],
               waiting |-> 0, byNext |-> FALSE]
    /\ units' = <<>>
    /\ delivered' = <<>>
    /\ agg' = NoAgg
    /\ finished' = <<>>
    /\ UNCHANGED <<dispatch, other, major, cls, handlers>>
    /\ UNCHANGED syncVars

\* AsyncEventMixin._result_tuple(handler, f): return handler, await f
_result_tuple(u) == <<u.first, ReturnValue(u.h, u.args, u.kwargs)>>

\* what is left of the generator when list(self), set(self) or *self runs
\* EventFireIter.__next__ until StopIteration: _call_handler is called for
\* every handler not yet reached, and the awaitables go to the caller
DrainIter ==
    [k \in 1..(Len(handlers) - fit.idx) |->
        [Async_call_handler(handlers[fit.idx + k], fit.args, fit.kwargs)
            EXCEPT !.wrapper = "held"]]

\* the units whose awaitables an aggregation holds
Members(a) == (a.from + 1)..Len(units)

\* EventFireIter.next: next(self._iter) advances the generator, which calls
\* _call_handler for the next handler of the list, or ends
IterNext ==
    /\ fit.state = "open"
    /\ fit.waiting = 0
    /\ IF fit.idx < Len(handlers)
       THEN /\ units' = Append(units, Async_call_handler(handlers[fit.idx + 1],
                                                         fit.args, fit.kwargs))
            /\ fit' = [fit EXCEPT !.idx = @ + 1, !.byNext = TRUE]
       ELSE /\ units' = units
            /\ fit' = [fit EXCEPT !.state = "exhausted", !.byNext = TRUE]
    /\ UNCHANGED <<dispatch, other, major, cls, handlers, delivered, agg, finished>>
    /\ UNCHANGED syncVars

\* a stream that hands its awaitables back in the order it was given them
CompletedInListOrder(queue, i) ==
    SelectSeq(queue, LAMBDA j : j < i) \o <<i>>
        \o SelectSeq(queue, LAMBDA j : j > i)

\* asyncio.as_completed with its tasks running: the done callback of a task
\* puts it at the end of the queue the stream is read from
Completed(queue, i) == Append(queue, i)

\* every order of the elements of S: asyncio.as_completed makes its tasks
\* while iterating set(fs), whose order is the order of no list
Orders(S) ==
    {q \in [1..Cardinality(S) -> S] :
        \A x, y \in 1..Cardinality(S) : x # y => q[x] # q[y]}

\* the event loop starts a task, or an executor worker starts a call: the
\* body of the handler begins to run
UnitStart(i) ==
    /\ units[i].f = "scheduled"
    /\ units' = [units EXCEPT ![i].f = "running"]
    /\ UNCHANGED <<dispatch, other, major, cls, handlers, fit, delivered, agg, finished>>
    /\ UNCHANGED syncVars

\* the handler returns or raises: its task or future is done
UnitFinish(i) ==
    /\ units[i].f = "running"
    /\ units' = [units EXCEPT ![i].f =
                    IF units[i].h \in AsyncRaising THEN "failed" ELSE "done"]
    /\ finished' = Append(finished, i)
    /\ agg' = IF /\ agg.kind = "as_completed"
                 /\ agg.state = "streaming"
                 /\ i \in Members(agg)
              THEN [agg EXCEPT !.queue = Completed(@, i)]
              ELSE agg
    /\ UNCHANGED <<dispatch, other, major, cls, handlers, fit, delivered>>
    /\ UNCHANGED syncVars

\* the consumer awaits the awaitable it was given for unit i:
\* _result_tuple returns (handler, await f) once f is done, and raises what
\* f raised
Await(i) ==
    /\ fit.waiting = 0
    /\ units[i].wrapper = "created"
    /\ units[i].f \in {"done", "failed"}
    /\ IF units[i].f = "done"
       THEN /\ units' = [units EXCEPT ![i].wrapper = "returned"]
            /\ delivered' = Append(delivered, _result_tuple(units[i]))
       ELSE /\ units' = [units EXCEPT ![i].wrapper = "raised"]
            /\ delivered' = delivered
    /\ UNCHANGED <<dispatch, other, major, cls, handlers, fit, agg, finished>>
    /\ UNCHANGED syncVars

\* an anext that passes over a handler of the list
AnextSkipping ==
    /\ fit.state = "open"
    /\ fit.waiting = 0
    /\ IF fit.idx + 1 < Len(handlers)
       THEN /\ units' = Append(units, Async_call_handler(handlers[fit.idx + 2],
                                                         fit.args, fit.kwargs))
            /\ fit' = [fit EXCEPT !.idx = @ + 2, !.waiting = Len(units) + 1]
       ELSE /\ units' = units
            /\ fit' = [fit EXCEPT !.state = "exhausted"]
    /\ UNCHANGED <<dispatch, other, major, cls, handlers, delivered, agg, finished>>
    /\ UNCHANGED syncVars

\* EventFireIter.anext, which `async for` calls: f = next(self._iter), with
\* StopIteration turned into StopAsyncIteration, and then `return await f`,
\* which suspends the consumer until the handler is done
Anext ==
    /\ fit.state = "open"
    /\ fit.waiting = 0
    /\ IF fit.idx < Len(handlers)
       THEN /\ units' = Append(units, Async_call_handler(handlers[fit.idx + 1],
                                                         fit.args, fit.kwargs))
            /\ fit' = [fit EXCEPT !.idx = @ + 1, !.waiting = Len(units) + 1]
       ELSE /\ units' = units
            /\ fit' = [fit EXCEPT !.state = "exhausted"]
    /\ UNCHANGED <<dispatch, other, major, cls, handlers, delivered, agg, finished>>
    /\ UNCHANGED syncVars

\* the handler anext awaits is done: anext returns its pair to the
\* consumer, or raises what the handler raised
AnextReturn ==
    /\ fit.waiting # 0
    /\ units[fit.waiting].f \in {"done", "failed"}
    /\ fit' = [fit EXCEPT !.waiting = 0]
    /\ IF units[fit.waiting].f = "done"
       THEN /\ units' = [units EXCEPT ![fit.waiting].wrapper = "returned"]
            /\ delivered' = Append(delivered, _result_tuple(units[fit.waiting]))
       ELSE /\ units' = [units EXCEPT ![fit.waiting].wrapper = "raised"]
            /\ delivered' = delivered
    /\ UNCHANGED <<dispatch, other, major, cls, handlers, agg, finished>>
    /\ UNCHANGED syncVars

\* a gather that hands the results back in the order of completion
GatherResultsAsCompleted(a) ==
    LET mine == SelectSeq(finished, LAMBDA i : i \in Members(a))
    IN  [k \in 1..Len(mine) |-> _result_tuple(units[mine[k]])]

\* the list asyncio.gather(*fs) returns: the result of each awaitable at
\* the position the awaitable had among the arguments
GatherResults(a) ==
    [k \in 1..(Len(units) - a.from) |-> _result_tuple(units[a.from + k])]

\* EventFireIter.gather (and __await__): await asyncio.gather(*fs) with
\* fs = self.  The star runs the generator to its end, which calls
\* _call_handler for every handler left, and gather makes a task of each
\* awaitable.
Gather ==
    /\ fit.state = "open"
    /\ fit.waiting = 0
    /\ agg.kind = "none"
    /\ units' = units \o DrainIter
    /\ fit' = [fit EXCEPT !.state = "exhausted", !.idx = Len(handlers)]
    /\ agg' = [NoAgg EXCEPT !.kind = "gather", !.state = "pending",
                            !.from = Len(units)]
    /\ UNCHANGED <<dispatch, other, major, cls, handlers, delivered, finished>>
    /\ UNCHANGED syncVars

\* every awaitable of the gather has returned: the caller gets the list
GatherReturn ==
    /\ agg.kind = "gather"
    /\ agg.state = "pending"
    /\ \A i \in Members(agg) : units[i].f = "done"
    /\ agg' = [agg EXCEPT !.state = "returned", !.value = GatherResults(agg),
                          !.at = Len(finished)]
    /\ units' = [i \in DOMAIN units |->
                    IF i \in Members(agg)
                    THEN [units[i] EXCEPT !.wrapper = "returned"] ELSE units[i]]
    /\ UNCHANGED <<dispatch, other, major, cls, handlers, fit, delivered, finished>>
    /\ UNCHANGED syncVars

\* an awaitable of the gather has raised: return_exceptions is left False,
\* so gather hands the exception of the handler to the caller as it is,
\* with nothing else, and lets the other awaitables run on
GatherRaise ==
    /\ agg.kind = "gather"
    /\ agg.state = "pending"
    /\ \E i \in Members(agg) : units[i].f = "failed"
    /\ agg' = [agg EXCEPT !.state = "raised", !.err = "Exception",
                          !.at = Len(finished)]
    /\ UNCHANGED <<dispatch, other, major, cls, handlers, fit, units, delivered, finished>>
    /\ UNCHANGED syncVars

\* EventFireIter.as_completed: fs = list(self) runs the generator to its
\* end, which calls _call_handler for every handler left;
\* asyncio.as_completed(fs) is a generator function, so nothing of it runs
\* before the new EventFireIter is advanced
AsCompleted ==
    /\ fit.state = "open"
    /\ fit.waiting = 0
    /\ agg.kind = "none"
    /\ units' = units \o DrainIter
    /\ fit' = [fit EXCEPT !.state = "exhausted", !.idx = Len(handlers)]
    /\ agg' = [NoAgg EXCEPT !.kind = "as_completed", !.state = "created",
                            !.from = Len(units)]
    /\ UNCHANGED <<dispatch, other, major, cls, handlers, delivered, finished>>
    /\ UNCHANGED syncVars

\* the first next() on the stream runs asyncio.as_completed up to its first
\* yield: a task is made of every awaitable of set(fs), and the tasks whose
\* handler is done already complete in the order they were made in
StreamStart ==
    /\ agg.kind = "as_completed"
    /\ agg.state = "created"
    /\ \E q \in Orders({i \in Members(agg) : units[i].f \in {"done", "failed"}}) :
          agg' = [agg EXCEPT !.state = "streaming", !.queue = q,
                             !.at = Len(finished)]
    /\ UNCHANGED <<dispatch, other, major, cls, handlers, fit, units, delivered, finished>>
    /\ UNCHANGED syncVars

\* a stream that leaves the task it has yielded at the head of its queue
StreamNextKeepingHead ==
    /\ agg.kind = "as_completed"
    /\ agg.state = "streaming"
    /\ agg.queue # <<>>
    /\ Len(agg.yielded) < Cardinality(Members(agg))
    /\ LET i == Head(agg.queue)
       IN  /\ agg' = [agg EXCEPT !.yielded = Append(@, i)]
           /\ IF units[i].f = "done"
              THEN /\ units' = [units EXCEPT ![i].wrapper = "returned"]
                   /\ delivered' = Append(delivered, _result_tuple(units[i]))
              ELSE /\ units' = [units EXCEPT ![i].wrapper = "raised"]
                   /\ delivered' = delivered
    /\ UNCHANGED <<dispatch, other, major, cls, handlers, fit, finished>>
    /\ UNCHANGED syncVars

\* the consumer awaits what the stream yields: the next task of the queue,
\* whose pair it is given, or whose exception is raised to it
StreamNext ==
    /\ agg.kind = "as_completed"
    /\ agg.state = "streaming"
    /\ agg.queue # <<>>
    /\ LET i == Head(agg.queue)
       IN  /\ agg' = [agg EXCEPT !.queue = Tail(@), !.yielded = Append(@, i)]
           /\ IF units[i].f = "done"
              THEN /\ units' = [units EXCEPT ![i].wrapper = "returned"]
                   /\ delivered' = Append(delivered, _result_tuple(units[i]))
              ELSE /\ units' = [units EXCEPT ![i].wrapper = "raised"]
                   /\ delivered' = delivered
    /\ UNCHANGED <<dispatch, other, major, cls, handlers, fit, finished>>
    /\ UNCHANGED syncVars

\* next() on the stream after it has yielded once for every task:
\* asyncio.as_completed ends its `for _ in range(len(todo))`, the generator
\* is finished and every further next() raises StopIteration
StreamEnd ==
    /\ agg.kind = "as_completed"
    /\ agg.state \in {"streaming", "exhausted"}
    /\ Len(agg.yielded) = Cardinality(Members(agg))
    /\ agg' = [agg EXCEPT !.state = "exhausted", !.err = "StopIteration"]
    /\ UNCHANGED <<dispatch, other, major, cls, handlers, fit, units, delivered,
                   finished>>
    /\ UNCHANGED syncVars

\* EventFireIter.wait: await asyncio.wait(fs) with fs = self.  The
\* EventFireIter is true whatever it holds, so the emptiness test of
\* asyncio.wait passes; set(fs) runs the generator to its end and a task is
\* made of every awaitable.  With no awaitable, `assert fs` of asyncio._wait
\* fails, and where assertions are compiled out the waiter that nothing
\* will ever set is awaited.
Wait ==
    /\ fit.state = "open"
    /\ fit.waiting = 0
    /\ agg.kind = "none"
    /\ units' = units \o DrainIter
    /\ fit' = [fit EXCEPT !.state = "exhausted", !.idx = Len(handlers)]
    /\ IF fit.idx < Len(handlers)
       THEN agg' = [NoAgg EXCEPT !.kind = "wait", !.state = "pending",
                                 !.from = Len(units)]
       ELSE \/ agg' = [NoAgg EXCEPT !.kind = "wait", !.state = "raised",
                                    !.err = "AssertionError",
                                    !.from = Len(units)]
            \/ agg' = [NoAgg EXCEPT !.kind = "wait", !.state = "stuck",
                                    !.from = Len(units)]
    /\ UNCHANGED <<dispatch, other, major, cls, handlers, delivered, finished>>
    /\ UNCHANGED syncVars

\* every task of the wait is done, returned or raised: asyncio.wait returns
\* the pair (done, pending) of sets of tasks, return_when being
\* ALL_COMPLETED, and raises nothing of what the tasks raised
WaitReturn ==
    /\ agg.kind = "wait"
    /\ agg.state = "pending"
    /\ \A i \in Members(agg) : units[i].f \in {"done", "failed"}
    /\ agg' = [agg EXCEPT !.state = "returned",
                          !.value = <<Members(agg), {}>>,
                          !.at = Len(finished)]
    /\ units' = [i \in DOMAIN units |->
                    IF i \in Members(agg)
                    THEN [units[i] EXCEPT !.wrapper =
                             IF units[i].f = "done" THEN "returned" ELSE "raised"]
                    ELSE units[i]]
    /\ UNCHANGED <<dispatch, other, major, cls, handlers, fit, delivered, finished>>
    /\ UNCHANGED syncVars

AsyncNext ==
    \/ \E a \in AsyncCallArgs : AsyncFire(a)
    \/ IterNext
    \/ \E i \in DOMAIN units : UnitStart(i)
    \/ \E i \in DOMAIN units : UnitFinish(i)
    \/ \E i \in DOMAIN units : Await(i)
    \/ Anext
    \/ AnextReturn
    \/ Gather
    \/ GatherReturn
    \/ GatherRaise
    \/ AsCompleted
    \/ StreamStart
    \/ StreamNext
    \/ StreamEnd
    \/ Wait
    \/ WaitReturn

AsyncSpec == AsyncInit /\ [][AsyncNext]_vars

(***************************************************************************)
(* An async fire awaited as a whole, by gather or by wait, on a loop that  *)
(* starts every task and every executor call it was given, with handlers   *)
(* that all come to an end, and with asyncio.gather and asyncio.wait       *)
(* waking their caller once their condition is met.                        *)
(***************************************************************************)
LiveInit ==
    /\ AsyncInit
    /\ Len(handlers) <= MaxLiveLen

LiveNext ==
    \/ \E a \in AsyncCallArgs : AsyncFire(a)
    \/ IterNext
    \/ \E i \in DOMAIN units : UnitStart(i)
    \/ \E i \in DOMAIN units : UnitFinish(i)
    \/ Gather
    \/ GatherReturn
    \/ GatherRaise
    \/ Wait
    \/ WaitReturn

LiveSpec ==
    /\ LiveInit
    /\ [][LiveNext]_vars
    /\ WF_vars(\E i \in DOMAIN units : UnitStart(i))
    /\ WF_vars(\E i \in DOMAIN units : UnitFinish(i))
    /\ WF_vars(GatherReturn)
    /\ WF_vars(GatherRaise)
    /\ WF_vars(WaitReturn)

(***************************************************************************)
(* Two fire calls on one async event, the second made while the first is  *)
(* under way.  Each call has the generator AsyncEventMixin._results made   *)
(* for it, over an iterator of its own on the list of handlers.            *)
(***************************************************************************)
\* one handler of each kind: a plain function, a coroutine function and a
\* coroutine function that raises
ConcurrentHandlers == {"test", "atest", "atest4"}

ConcurrentInit ==
    /\ AsyncInit
    /\ Len(handlers) <= MaxConcurrentLen
    /\ Range(handlers) \subseteq ConcurrentHandlers

\* the arguments of the second call: ape.fire(k=...)
OtherCallArgs == {<<PyTuple(<<>>), PyDict(<<"k">>)>>}

\* the second event.fire(*args, **kwargs)
OtherFire(a) ==
    /\ cls = "AsyncEvent"
    /\ fit.state # "none"
    /\ other' = [fit |-> [state |-> "open", idx |-> 0, args |-> a[1],
                          kwargs |-> a[2], waiting |-> 0, byNext |-> FALSE],
                 units |-> <<>>, delivered |-> <<>>]
    /\ UNCHANGED <<dispatch, major, cls, handlers, fit, units, delivered, agg, finished>>
    /\ UNCHANGED syncVars

\* a next of the second call that advances the generator of the first
OtherIterNextShared ==
    /\ other.fit.state = "open"
    /\ IF fit.idx < Len(handlers)
       THEN /\ other' = [other EXCEPT
                   !.units = Append(@, Async_call_handler(handlers[fit.idx + 1],
                                        other.fit.args, other.fit.kwargs)),
                   !.fit.idx = @ + 1, !.fit.byNext = TRUE]
            /\ fit' = [fit EXCEPT !.idx = @ + 1]
       ELSE /\ other' = [other EXCEPT !.fit.state = "exhausted",
                                      !.fit.byNext = TRUE]
            /\ fit' = fit
    /\ UNCHANGED <<dispatch, major, cls, handlers, units, delivered, agg, finished>>
    /\ UNCHANGED syncVars

\* EventFireIter.next on what the second call returned
OtherIterNext ==
    /\ other.fit.state = "open"
    /\ IF other.fit.idx < Len(handlers)
       THEN other' = [other EXCEPT
                !.units = Append(@, Async_call_handler(
                                        handlers[other.fit.idx + 1],
                                        other.fit.args, other.fit.kwargs)),
                !.fit.idx = @ + 1, !.fit.byNext = TRUE]
       ELSE other' = [other EXCEPT !.fit.state = "exhausted",
                                   !.fit.byNext = TRUE]
    /\ UNCHANGED <<dispatch, major, cls, handlers, fit, units, delivered, agg, finished>>
    /\ UNCHANGED syncVars

\* the loop or a worker starts the handler of a unit of the second call
OtherUnitStart(i) ==
    /\ other.units[i].f = "scheduled"
    /\ other' = [other EXCEPT !.units[i].f = "running"]
    /\ UNCHANGED <<dispatch, major, cls, handlers, fit, units, delivered, agg, finished>>
    /\ UNCHANGED syncVars

\* the handler of a unit of the second call returns or raises
OtherUnitFinish(i) ==
    /\ other.units[i].f = "running"
    /\ other' = [other EXCEPT !.units[i].f =
                    IF other.units[i].h \in AsyncRaising THEN "failed"
                    ELSE "done"]
    /\ UNCHANGED <<dispatch, major, cls, handlers, fit, units, delivered, agg, finished>>
    /\ UNCHANGED syncVars

\* the consumer of the second call awaits the awaitable of its unit i
OtherAwait(i) ==
    /\ other.units[i].wrapper = "created"
    /\ other.units[i].f \in {"done", "failed"}
    /\ other' = IF other.units[i].f = "done"
                THEN [other EXCEPT
                         !.units[i].wrapper = "returned",
                         !.delivered = Append(@, _result_tuple(other.units[i]))]
                ELSE [other EXCEPT !.units[i].wrapper = "raised"]
    /\ UNCHANGED <<dispatch, major, cls, handlers, fit, units, delivered, agg, finished>>
    /\ UNCHANGED syncVars

ConcurrentNext ==
    \/ \E a \in AsyncCallArgs : AsyncFire(a)
    \/ IterNext
    \/ \E i \in DOMAIN units : UnitStart(i)
    \/ \E i \in DOMAIN units : UnitFinish(i)
    \/ \E i \in DOMAIN units : Await(i)
    \/ Anext
    \/ AnextReturn
    \/ \E a \in OtherCallArgs : OtherFire(a)
    \/ OtherIterNext
    \/ \E i \in DOMAIN other.units : OtherUnitStart(i)
    \/ \E i \in DOMAIN other.units : OtherUnitFinish(i)
    \/ \E i \in DOMAIN other.units : OtherAwait(i)

ConcurrentSpec == ConcurrentInit /\ [][ConcurrentNext]_vars

(***************************************************************************)
(* An Event whose handlers are methods of objects:                         *)
(* Event.remove_handlers_bound_to_instance.                                *)
(***************************************************************************)
\* the objects whose methods are added, and one that has no method added
Owners == {"a", "b", "c"}

\* two methods of the object a, one of the object b, and a plain function
BoundHandlers == {"a.m", "a.n", "b.m", "f"}

\* the object a bound method is bound to
BoundTo(h) ==
    CASE h \in {"a.m", "a.n"} -> "a"
      [] h = "b.m" -> "b"

\* handler.im_self: the object a Python 2 bound method is bound to.  A plain
\* function has no such attribute, and on Python 3 no method has it either
\* (the attribute is __self__ there).
im_self(h) ==
    IF major = 2 /\ h # "f"
    THEN [v |-> BoundTo(h), err |-> "none"]
    ELSE [v |-> "", err |-> "AttributeError"]

\* Event.remove_handlers_bound_to_instance(obj):
\*     for handler in self.handlers:
\*         if handler.im_self == obj:
\*             self -= handler
\* self.handlers is iter(self.container.handlers), an iterator that reads the
\* list by index, and `self -= handler` is list.remove on that same list: idx
\* is the number of elements the iterator has read of hs
RECURSIVE remove_handlers_bound_to_instance(_, _, _)
remove_handlers_bound_to_instance(hs, idx, obj) ==
    IF idx >= Len(hs)
    THEN [handlers |-> hs, err |-> "none"]
    ELSE LET handler == hs[idx + 1]
             attr == im_self(handler)
         IN  IF attr.err # "none"
             THEN [handlers |-> hs, err |-> attr.err]
             ELSE IF attr.v = obj
                  THEN remove_handlers_bound_to_instance(
                           List_remove_handler(hs, handler).handlers,
                           idx + 1, obj)
                  ELSE remove_handlers_bound_to_instance(hs, idx + 1, obj)

\* Event(), on either Python
BoundInit ==
    /\ major \in PythonMajors
    /\ cls = "Event"
    /\ handlers = <<>>
    /\ map = <<>>
    /\ weakmap = <<>>
    /\ gen = NoGen
    /\ calls = <<>>
    /\ ret = Returned("init", "", DefaultPriority, NoArgs, <<>>, "none")
    /\ fit = NoIter
    /\ units = <<>>
    /\ delivered = <<>>
    /\ agg = NoAgg
    /\ finished = <<>>
    /\ other = NoOther
    /\ dispatch = NoDispatch

\* event.remove_handlers_bound_to_instance(obj) on the list container
RemoveHandlersBoundToInstance(obj) ==
    /\ cls = "Event"
    /\ LET r == remove_handlers_bound_to_instance(handlers, 0, obj)
       IN  /\ handlers' = r.handlers
           /\ ret' = Returned("remove_handlers_bound_to_instance", obj,
                              DefaultPriority, NoArgs, <<>>, r.err)
    /\ gen' = Touched(gen, handlers' # handlers)
    /\ calls' = <<>>
    /\ UNCHANGED <<dispatch, other, major, cls, map, weakmap>>
    /\ UNCHANGED asyncVars

BoundNext ==
    \/ \E h \in BoundHandlers : EventAdd(h)
    \/ \E h \in BoundHandlers : EventRemove(h)
    \/ \E obj \in Owners : RemoveHandlersBoundToInstance(obj)

BoundSpec == BoundInit /\ [][BoundNext]_vars

(***************************************************************************)
(* Dispatch: handler objects receive events through methods named after    *)
(* the events.  Every Event of a Dispatch is made by event_factory = Event *)
(* and keeps its bound methods in a list.                                  *)
(***************************************************************************)
internal_events == {"on_handler_add", "on_handler_remove", "on_add_event"}

EventNames == {"on_echo", "on_x", "on_y"}

HandlerObjects == {"h1", "h2"}

\* the methods of the class of a handler object, each `def m(self, arg):
\* return arg`; none is named after an internal event
MethodsOf(o) == IF o = "h1" THEN {"on_echo", "on_x"} ELSE {"on_echo"}

\* getattr(handler, name): the method `name` bound to the object
BoundMethod(o, name) == [t |-> "method", v |-> <<o, name>>]

\* an attaching that takes an empty `events` as no event at all
AttachToGivenNamesOnly(evs, o, names) ==
    [n \in DOMAIN evs |->
        IF n \in names /\ n \in MethodsOf(o)
        THEN List_add_handler(evs[n], BoundMethod(o, n))
        ELSE evs[n]]

\* Dispatch._attach_handler_events(handler, events): an empty `events` is
\* replaced by the names of all the events of the dispatch
_attach_handler_events(evs, o, names) ==
    LET known == IF names = {} THEN DOMAIN evs ELSE names
    IN  [n \in DOMAIN evs |->
            IF n \in known /\ n \in MethodsOf(o)
            THEN List_add_handler(evs[n], BoundMethod(o, n))
            ELSE evs[n]]

\* attaching the events only once for an object registered more than once
RECURSIVE AttachOncePerObject(_, _, _, _)
AttachOncePerObject(evs, hs, i, names) ==
    IF i > Len(hs) THEN evs
    ELSE AttachOncePerObject(
             IF hs[i] \in Range(SubSeq(hs, 1, i - 1)) THEN evs
             ELSE _attach_handler_events(evs, hs[i], names),
             hs, i + 1, names)

\* [self._attach_handler_events(handler, events=names)
\*  for handler in self.handlers]
RECURSIVE AttachAll(_, _, _, _)
AttachAll(evs, hs, i, names) ==
    IF i > Len(hs) THEN evs
    ELSE AttachAll(_attach_handler_events(evs, hs[i], names), hs, i + 1, names)

\* an add_events that makes no Event
add_events_of_known_names(evs, hs, names) == evs

\* Dispatch.add_events(names): a new Event under every name, also under a
\* name that had one, then the handlers are searched for these names.
\* The on_add_event fired at the end has no handler.
add_events(evs, hs, names) ==
    LET created == [n \in DOMAIN evs \cup names |->
                       IF n \in names THEN <<>> ELSE evs[n]]
    IN  AttachAll(created, hs, 1, names)

\* Dispatch.clear() as __init__ calls it: _setup_internal_events
Cleared == add_events(<<>>, <<>>, internal_events)

\* a handler object as the value a call returns
Object(o) == [t |-> "object", o |-> o]

\* a call on the dispatch and its outcome: the names given to __init__ or
\* add_events, the event name given to fire, the handler given to add or
\* remove, and a flag: create_events_on_fire, allow_dupe or the argument
\* the event is fired with
DispatchReturned(op, arg, flag, value, err) ==
    [op |-> op,
     names |-> IF op \in {"init", "add_events"} THEN arg ELSE {},
     name |-> IF op = "fire" THEN arg ELSE "",
     handler |-> IF op \in {"add", "remove"} THEN arg ELSE "",
     flag |-> flag, value |-> value, err |-> err]

\* Dispatch(event_names=names, create_events_on_fire=c)
Dispatch(names, c) ==
    [handlers |-> <<>>,
     events |-> IF names # {} THEN add_events(Cleared, <<>>, names) ELSE Cleared,
     create_events_on_fire |-> c,
     ret |-> DispatchReturned("init", names, c, NoValue, "none")]

DispatchInit ==
    /\ major \in PythonMajors
    /\ cls = "Event"
    /\ handlers = <<>>
    /\ map = <<>>
    /\ weakmap = <<>>
    /\ gen = NoGen
    /\ calls = <<>>
    /\ ret = Returned("init", "", DefaultPriority, NoArgs, <<>>, "none")
    /\ fit = NoIter
    /\ units = <<>>
    /\ delivered = <<>>
    /\ agg = NoAgg
    /\ finished = <<>>
    /\ other = NoOther
    /\ \E names \in SUBSET EventNames : \E c \in BOOLEAN :
           dispatch = Dispatch(names, c)

\* d.add_events(names)
DispatchAddEvents(names) ==
    /\ LET evs == add_events(dispatch.events, dispatch.handlers, names)
       IN  /\ \A n \in DOMAIN evs : Len(evs[n]) <= MaxAttached
           /\ dispatch' = [dispatch EXCEPT
                  !.events = evs,
                  !.ret = DispatchReturned("add_events", names, FALSE,
                                           NoValue, "none")]
    /\ UNCHANGED <<other, major, cls, handlers>>
    /\ UNCHANGED syncVars
    /\ UNCHANGED asyncVars

\* an add that never looks for the handler in the list
DispatchAddAnyway(o, allow_dupe) ==
    /\ Len(dispatch.handlers) < MaxDispatchLen
    /\ dispatch' = [dispatch EXCEPT
           !.handlers = Append(@, o),
           !.events = _attach_handler_events(@, o, {}),
           !.ret = DispatchReturned("add", o, allow_dupe, Object(o),
                                    "none")]
    /\ UNCHANGED <<other, major, cls, handlers>>
    /\ UNCHANGED syncVars
    /\ UNCHANGED asyncVars

\* d.add(handler, allow_dupe=...), and d += handler with allow_dupe False:
\* _add, whose on_handler_add has no handler
DispatchAdd(o, allow_dupe) ==
    /\ IF ~allow_dupe /\ o \in Range(dispatch.handlers)
       THEN dispatch' = [dispatch EXCEPT
                !.ret = DispatchReturned("add", o, allow_dupe, NoValue,
                                         "ValueError")]
       ELSE /\ Len(dispatch.handlers) < MaxDispatchLen
            /\ dispatch' = [dispatch EXCEPT
                   !.handlers = Append(@, o),
                   !.events = _attach_handler_events(@, o, {}),
                   !.ret = DispatchReturned("add", o, allow_dupe, Object(o),
                                    "none")]
    /\ UNCHANGED <<other, major, cls, handlers>>
    /\ UNCHANGED syncVars
    /\ UNCHANGED asyncVars

\* d.remove(handler): _remove iterates the dispatch, which gives the names
\* of its events, and calls remove_handlers_bound_to_instance on each name
DispatchRemove(o) ==
    /\ IF DOMAIN dispatch.events # {}
       THEN dispatch' = [dispatch EXCEPT
                !.ret = DispatchReturned("remove", o, FALSE, NoValue,
                                         "AttributeError")]
       ELSE IF o \notin Range(dispatch.handlers)
       THEN dispatch' = [dispatch EXCEPT
                !.ret = DispatchReturned("remove", o, FALSE, NoValue,
                                         "ValueError")]
       ELSE dispatch' = [dispatch EXCEPT
                !.handlers = RemoveFirst(@, o),
                !.ret = DispatchReturned("remove", o, FALSE, Object(o), "none")]
    /\ UNCHANGED <<other, major, cls, handlers>>
    /\ UNCHANGED syncVars
    /\ UNCHANGED asyncVars

\* Event.fire(arg) of an Event of the dispatch: list(self._results(...))
DispatchResults(ms, arg) ==
    PyList([i \in DOMAIN ms |-> <<ms[i], arg>>])

\* Dispatch._maybe_create_on_fire(event): the events afterwards
_maybe_create_on_fire(d, name) ==
    IF name \in DOMAIN d.events THEN d.events
    ELSE IF d.create_events_on_fire
    THEN add_events(d.events, d.handlers, {name})
    ELSE d.events

\* d.fire(name, arg), d(name, arg)
DispatchFire(name, arg) ==
    /\ LET evs == _maybe_create_on_fire(dispatch, name)
       IN  dispatch' = [dispatch EXCEPT
               !.events = evs,
               !.ret = DispatchReturned("fire", name, arg,
                          IF name \in DOMAIN evs
                          THEN DispatchResults(evs[name], arg)
                          ELSE NoValue,
                          "none")]
    /\ UNCHANGED <<other, major, cls, handlers>>
    /\ UNCHANGED syncVars
    /\ UNCHANGED asyncVars

DispatchNext ==
    \/ \E names \in SUBSET EventNames : DispatchAddEvents(names)
    \/ \E o \in HandlerObjects : \E allow_dupe \in BOOLEAN :
           DispatchAdd(o, allow_dupe)
    \/ \E o \in HandlerObjects : DispatchRemove(o)
    \/ \E name \in EventNames : \E arg \in BOOLEAN : DispatchFire(name, arg)

DispatchSpec == DispatchInit /\ [][DispatchNext]_vars

\* a dispatch that is only added to: handler objects, events under given
\* names (at least one name a call) and events made by fire
AttachNext ==
    \/ \E names \in (SUBSET EventNames) \ {{}} : DispatchAddEvents(names)
    \/ \E o \in HandlerObjects : \E allow_dupe \in BOOLEAN :
           DispatchAdd(o, allow_dupe)
    \/ \E name \in EventNames : \E arg \in BOOLEAN : DispatchFire(name, arg)

AttachSpec == DispatchInit /\ [][AttachNext]_vars

(***************************************************************************)
(* Properties of the synchronous Event and of the handler containers.      *)
(***************************************************************************)
ValueReturning(hs) == Range(hs) \cap Raising = {}

\* C1: fire(*args, **kwargs) on an event whose handlers all return a value
\* invokes each handler once, in iteration order, with the arguments given,
\* and returns the list of (handler, return value) in that order.
C1_FireReturnsPairsInOrder ==
    (ret.op = "fire" /\ ValueReturning(EventHandlers)) =>
        /\ ret.err = "none"
        /\ Len(ret.value) = Len(EventHandlers)
        /\ \A i \in 1..Len(EventHandlers) :
              ret.value[i] = <<EventHandlers[i],
                               ReturnValue(EventHandlers[i], ret.args, ret.kwargs)>>
        /\ calls = [i \in 1..Len(EventHandlers) |->
                      <<EventHandlers[i], ret.args, ret.kwargs>>]

C1_Witness ==
    /\ ret.op = "fire"
    /\ cls = "Event"
    /\ handlers = <<"g", "f", "g">>
    /\ Len(ret.value) = 3
    /\ ret.args = PyTuple(<<1>>)

PrioritySorted(pairs) ==
    \A i, j \in 1..Len(pairs) : i < j => pairs[i][1] <= pairs[j][1]

\* the iteration after add(h, p): h follows everything of priority <= p
InsertedByPriority(pairs, h, p) ==
    SelectSeq(pairs, LAMBDA x : x[1] <= p) \o <<<<p, h>>>>
        \o SelectSeq(pairs, LAMBDA x : x[1] > p)

\* C2: iterating the priority container yields the handlers by ascending
\* priority, and every add(h, p) puts h behind all handlers of priority p
\* added before it, leaving the order of the others alone.
C2_IterationByPriorityThenInsertion ==
    /\ [](PrioritySorted(PriorityIterPairs(map)))
    /\ [][(cls = "PriorityEvent" /\ ret'.op = "add") =>
            /\ PriorityIterPairs(map') =
                   InsertedByPriority(PriorityIterPairs(map), ret'.h, ret'.p)
            /\ PriorityIterHandlers(map') =
                   [i \in 1..Len(PriorityIterPairs(map')) |->
                      PriorityIterPairs(map')[i][2]]]_vars

C2_Witness ==
    /\ cls = "PriorityEvent"
    /\ ret.op = "add" /\ ret.p = 0
    /\ PriorityIterPairs(map) = <<<<0, "f">>, <<10, "f">>, <<10, "g">>>>

\* the per-priority result lists of fire_by_priority, concatenated
FlattenedByPriority(value) == Flatten([i \in 1..Len(value) |-> value[i][2]])

\* C3: the per-priority result lists returned by fire_by_priority,
\* concatenated in the order returned, are the (handler, result) pairs that
\* fire returns for the same handlers and arguments.
C3_FireByPriorityFlattensToFire ==
    (ret.op = "fire_by_priority" /\ ValueReturning(EventHandlers)) =>
        /\ ret.err = "none"
        /\ FlattenedByPriority(ret.value) =
               _results(ret.args, ret.kwargs, _sentinel).pairs

\* C4 as claimed: once remove(h) has returned, iterating the container does
\* not yield h.
C4_RemovedHandlerNeverYielded ==
    (ret.op = "remove" /\ ret.err = "none") => ret.h \notin Range(EventHandlers)

\* C4: a remove(h) that returns takes exactly one occurrence of h out of
\* the container and keeps every other entry, so iterating does not yield
\* h afterwards when h was registered once.
C4_RemoveDeletesOneOccurrence ==
    [][(ret'.op = "remove" /\ ret'.err = "none") =>
         /\ Count(EventHandlers', ret'.h) = Count(EventHandlers, ret'.h) - 1
         /\ \A x \in Handlers \ {ret'.h} :
               Count(EventHandlers', x) = Count(EventHandlers, x)
         /\ (Count(EventHandlers, ret'.h) = 1 =>
               ret'.h \notin Range(EventHandlers'))]_vars

C4_Witness ==
    /\ ret.op = "remove" /\ ret.err = "none"
    /\ ret.h \notin Range(EventHandlers)
    /\ Len(EventHandlers) = 2

\* the errors the containers raise for a handler they do not hold:
\* list.remove raises ValueError, WeakKeyDictionary.pop raises KeyError
HandlerNotFoundError == {"ValueError", "KeyError"}

\* C5: remove(h) of a handler that is not registered raises the
\* container's not-found error to the caller and leaves the list, the
\* priority map and the reverse index as they were.
C5_RemoveOfAbsentHandlerFails ==
    [][(ret'.op = "remove" /\ ret'.h \notin Range(EventHandlers)) =>
         /\ ret'.err \in HandlerNotFoundError
         /\ handlers' = handlers
         /\ map' = map
         /\ weakmap' = weakmap]_vars

C5_Witness ==
    /\ ret.op = "remove" /\ ret.err = "KeyError"
    /\ ret.h \notin Range(EventHandlers)
    /\ Len(EventHandlers) = 2

\* the priorities whose list holds h
PrioritiesOf(h) == {p \in DOMAIN map : h \in Range(map[p])}

\* C6: a handler is held under at most one priority.
C6_HandlerUnderOnePriority ==
    \A h \in Handlers : Cardinality(PrioritiesOf(h)) <= 1

\* C7: an exception raised by a handler does not leave fire or a step of
\* ifire: every handler is invoked and a pair is returned for each.
C7_HandlerErrorCaptured ==
    /\ ret.op = "fire" =>
          /\ ret.err = "none"
          /\ Len(calls) = Len(EventHandlers)
          /\ Len(ret.value) = Len(EventHandlers)
    /\ ret.op = "next" => ret.err \in {"none", "StopIteration"}

Min(a, b) == IF a < b THEN a ELSE b

\* C8: after k elements have been requested of the generator of ifire, the
\* first k handlers of the list (all of them when there are fewer) have
\* been invoked, in order and with the arguments of the ifire call, and no
\* other handler has.
C8_LazyFireInvokesOnDemand ==
    (gen.state # "none" /\ ~gen.dirty) =>
        LET n == Min(gen.requested, Len(handlers))
        IN  /\ Len(gen.calls) <= gen.requested
            /\ ValueReturning(SubSeq(handlers, 1, n)) =>
                  gen.calls = [i \in 1..n |-> <<handlers[i], gen.args, gen.kwargs>>]

C8_Witness ==
    /\ gen.state = "suspended" /\ ~gen.dirty
    /\ gen.requested = 2
    /\ handlers = <<"f", "g", "f">>
    /\ Len(gen.calls) = 2

(***************************************************************************)
(* Properties of the async Event.                                          *)
(***************************************************************************)
\* C9: once fire has been called on the async event, a unit of work
\* exists for every registered handler, whether or not the returned
\* iterator has been advanced.
C9_FireSchedulesEveryHandler ==
    fit.state # "none" => Len(units) = Len(handlers)

\* C10: the first element of every pair delivered is a handler that was
\* registered on the event, and the second is that handler's result.
C10_PairCarriesRegisteredHandler ==
    \A i \in DOMAIN delivered :
        \E h \in Range(handlers) :
            /\ delivered[i][1] = Function(h)
            /\ delivered[i][2] = ReturnValue(h, fit.args, fit.kwargs)

(***************************************************************************)
(* Properties of the aggregations of EventFireIter.                        *)
(***************************************************************************)
\* C11: gather on an async fire returns the (handler, result) pairs in the
\* order of the handlers in the list, whatever the order in which the
\* handlers complete: element k of the list is the pair of the k-th handler
\* the gather took from the iterator.
C11_GatherInSubmissionOrder ==
    (agg.kind = "gather" /\ agg.state = "returned") =>
        /\ Len(agg.value) = Len(handlers) - agg.from
        /\ \A k \in 1..Len(agg.value) :
              /\ units[agg.from + k].h = handlers[agg.from + k]
              /\ agg.value[k] = _result_tuple(units[agg.from + k])
              /\ agg.value[k][2] = ReturnValue(handlers[agg.from + k],
                                               fit.args, fit.kwargs)

C11_Witness ==
    /\ agg.kind = "gather"
    /\ agg.state = "returned"
    /\ agg.from = 0
    /\ handlers = <<"atest", "test", "atest2">>
    /\ finished = <<3, 1, 2>>

\* the units in the order in which the stream hands them to the consumer
StreamOrder == agg.yielded \o agg.queue

\* unit a comes before unit b in the sequence s
Before(s, a, b) ==
    \A x, y \in DOMAIN s : (s[x] = a /\ s[y] = b) => x < y

C13_GatherFailureCarriesPartialResults ==
    (agg.kind = "gather" /\ agg.state = "raised") =>
        /\ agg.err # "none"
        /\ \A p \in 1..agg.at :
              (finished[p] \in Members(agg) /\ units[finished[p]].f = "done")
                  => _result_tuple(units[finished[p]]) \in Range(agg.value)
        /\ \A i \in Members(agg) : units[i].f # "cancelled"

\* C14: wait on an async fire raises nothing, whether handlers failed or
\* not, and when it returns every unit of the fire is done, returned or
\* failed, the failures are kept in the units, and no unit is pending.
C14_WaitReturnsWithoutRaising ==
    agg.kind = "wait" =>
        /\ agg.state \in {"pending", "returned"}
        /\ agg.state = "returned" =>
              /\ \A i \in Members(agg) : units[i].f \in {"done", "failed"}
              /\ agg.value = <<Members(agg), {}>>

\* the units the consumer has consumed: by awaiting what the iterator or
\* the stream gave it, or by a gather that has come to its end
Consumed ==
    {i \in DOMAIN units :
        \/ agg.kind \in {"none", "as_completed"}
              /\ units[i].wrapper \in {"returned", "raised"}
        \/ agg.kind = "gather" /\ agg.state \in {"returned", "raised"}
              /\ i \in Members(agg) /\ units[i].f \in {"done", "failed"}}

\* C15: when the unit of a handler that failed is consumed, by iteration,
\* by the stream of as_completed or by gather, the consumer is given a pair
\* of the handler and its error, and no exception is raised to it.
C15_FailureSurfacedAsPair ==
    \A i \in Consumed :
        units[i].f = "failed" =>
            /\ units[i].wrapper # "raised"
            /\ agg.state # "raised"
            /\ \E k \in DOMAIN delivered \cup DOMAIN agg.value :
                  LET pair == IF k \in DOMAIN delivered THEN delivered[k]
                              ELSE agg.value[k]
                  IN  pair[1] = Function(units[i].h)

\* the consumer can have the next handler of the list called now
CanScheduleNext == ENABLED (IterNext \/ Anext \/ Gather \/ AsCompleted \/ Wait)

\* C16: a plain handler is run by the executor, and while it is running it
\* delays the scheduling of no other handler of the fire: every handler of
\* the list that was not called yet can be called now, every unit that was
\* not started can start and every unit that is running can finish.
C16_PlainHandlerNeverDelaysSiblings ==
    \A i \in DOMAIN units :
        (~IsCoroutineOrGeneratorFunction(units[i].h) /\ units[i].f = "running")
            => /\ units[i].on = "executor"
               /\ Len(units) < Len(handlers) => CanScheduleNext
               /\ \A j \in DOMAIN units \ {i} :
                     /\ units[j].f = "scheduled" => ENABLED UnitStart(j)
                     /\ units[j].f = "running" => ENABLED UnitFinish(j)

(***************************************************************************)
(* Properties of duplicate handlers and of the removal by owner.           *)
(***************************************************************************)
\* C17: on a store that refuses duplicates, an add of a handler the store
\* holds already fails, so that after an add that returned the store holds
\* the handler exactly once.
C17_DuplicateAddRejected ==
    (ret.op = "add" /\ ret.err = "none") => Count(EventHandlers, ret.h) = 1

\* Event.__len__: len(list(self.handlers))
Event_len == Len(EventHandlers)

\* the handlers of the pairs a fire call returned
FiredHandlers(pairs) == [i \in DOMAIN pairs |-> pairs[i][1]]

\* C18: an add of a handler the store holds already adds one more
\* occurrence of it, which iteration yields and len counts, and fire invokes
\* a handler, and returns a pair for it, once for every occurrence.
C18_DuplicateCountedAndFiredTwice ==
    /\ [][ret'.op = "add" =>
            /\ ret'.err = "none"
            /\ Count(EventHandlers', ret'.h) = Count(EventHandlers, ret'.h) + 1
            /\ Event_len' = Event_len + 1]_vars
    /\ []((ret.op = "fire" /\ ret.err = "none") =>
            \A h \in Handlers :
               /\ Count(FiredHandlers(ret.value), h) = Count(EventHandlers, h)
               /\ Count(FiredHandlers(calls), h) = Count(EventHandlers, h))

C18_Witness ==
    /\ cls = "Event"
    /\ handlers = <<"f", "f">>
    /\ Event_len = 2
    /\ ret.op = "fire"
    /\ FiredHandlers(ret.value) = <<"f", "f">>
    /\ Len(calls) = 2

\* C19: once remove_handlers_bound_to_instance(obj) has returned, no handler
\* bound to obj is left in the store, however many there were and wherever
\* they stood.
C19_NoHandlerOfOwnerRemains ==
    (ret.op = "remove_handlers_bound_to_instance" /\ ret.err = "none") =>
        \A i \in DOMAIN handlers :
            handlers[i] = "f" \/ BoundTo(handlers[i]) # ret.h

\* C20: remove_handlers_bound_to_instance(obj) on a store none of whose
\* handlers is bound to obj, be they methods of other objects or plain
\* functions, raises nothing and leaves the store as it was.
C20_NothingBoundIsNoError ==
    [][(/\ ret'.op = "remove_handlers_bound_to_instance"
        /\ \A i \in DOMAIN handlers :
              handlers[i] = "f" \/ BoundTo(handlers[i]) # ret'.h)
          => (ret'.err = "none" /\ handlers' = handlers)]_vars

(***************************************************************************)
(* Properties of firing as a whole.                                        *)
(***************************************************************************)
\* the calls that fire, and the steps that consume what they returned
FiringOps == {"fire", "fire_by_priority", "ifire", "next"}

\* C21: no fire call, and no step of the consumption of what it returned,
\* changes the container: the list, the sequences by priority and the map
\* from handler to priority are after it what they were before it.  Every
\* step of an async fire is such a step.
C21_FiringKeepsStore ==
    [][(ret'.op \in FiringOps \/ cls = "AsyncEvent") =>
          /\ handlers' = handlers
          /\ map' = map
          /\ weakmap' = weakmap]_vars

C21_Witness ==
    /\ cls = "PriorityEvent"
    /\ ret.op = "fire"
    /\ Len(ret.value) = 3
    /\ Cardinality(DOMAIN map) = 2

\* the handlers invoked, in the order of the invocations
InvokedHandlers(log) == [i \in DOMAIN log |-> log[i][1]]

\* C22: two ifire calls on the same handlers, each consumed to its end,
\* invoke every handler once per call, twice in all: the second generator
\* invokes the handlers again, with the arguments of its own call, whatever
\* became of the first.
C22_EachLazyFireInvokesAgain ==
    (/\ gen.state = "finished"
     /\ ~gen.dirty
     /\ gen.past # <<>>
     /\ ValueReturning(handlers)) =>
        /\ InvokedHandlers(gen.past[1]) = handlers
        /\ InvokedHandlers(gen.calls) = handlers
        /\ \A i \in DOMAIN gen.calls :
              gen.calls[i] = <<handlers[i], gen.args, gen.kwargs>>
        /\ \A h \in Handlers :
              Count(InvokedHandlers(gen.past[1] \o gen.calls), h)
                  = 2 * Count(handlers, h)

C22_Witness ==
    /\ gen.state = "finished"
    /\ ~gen.dirty
    /\ handlers = <<"f", "g">>
    /\ Len(gen.past) = 1
    /\ Len(gen.past[1] \o gen.calls) = 4
    /\ gen.past[1][1][2] # gen.calls[1][2]

\* the priorities of the entries fire_by_priority returned, in their order
ReturnedPriorities(value) == [i \in DOMAIN value |-> value[i][1]]

\* the priorities under which a handler is registered, ascending
LivePriorities ==
    SortedKeys({PriorityIterPairs(map)[i][1] :
                    i \in DOMAIN PriorityIterPairs(map)})

\* C23: fire_by_priority returns one entry for every priority that has a
\* handler, by ascending priority, and no other entry: none for a priority
\* whose handlers were all removed, none twice.
C23_OneEntryPerLivePriority ==
    ret.op = "fire_by_priority" =>
        /\ ret.err = "none"
        /\ ReturnedPriorities(ret.value) = LivePriorities

\* C24: iterating the EventFireIter of an async fire with `async for`, over
\* handlers that return, gives one pair per handler, in the order of the
\* handlers, and ends after the last one; iterating it with next() gives
\* one awaitable per handler, in that order, and awaiting one gives the pair
\* of its handler.
C24_AsyncIterationYieldsEachPairInOrder ==
    (fit.state # "none" /\ agg.kind = "none") =>
        /\ Len(units) = fit.idx
        /\ \A k \in DOMAIN units : units[k].h = handlers[k]
        /\ fit.state = "exhausted" => fit.idx = Len(handlers)
        /\ \A k \in DOMAIN units :
              units[k].wrapper = "returned"
                  <=> (/\ _result_tuple(units[k]) \in Range(delivered)
                       /\ units[k].f = "done")
        /\ (~fit.byNext /\ Range(handlers) \cap AsyncRaising = {}) =>
              /\ Len(delivered) =
                    IF fit.waiting = 0 THEN fit.idx ELSE fit.idx - 1
              /\ \A k \in DOMAIN delivered :
                    /\ delivered[k] = _result_tuple(units[k])
                    /\ delivered[k][2] =
                          ReturnValue(handlers[k], fit.args, fit.kwargs)

C24_Witness ==
    /\ fit.state = "exhausted"
    /\ ~fit.byNext
    /\ agg.kind = "none"
    /\ handlers = <<"atest2", "test", "atest">>
    /\ Len(delivered) = 3

\* the units of a call are its own: one per handler the call has reached,
\* made with the arguments of that call, and the pairs its consumer has
\* received are the pairs of its units
OwnUnits(c) ==
    /\ Len(c.units) = c.fit.idx
    /\ c.fit.idx <= Len(handlers)
    /\ \A k \in DOMAIN c.units :
          /\ c.units[k].h = handlers[k]
          /\ c.units[k].args = c.fit.args
          /\ c.units[k].kwargs = c.fit.kwargs
    /\ \A k \in DOMAIN c.delivered :
          \E i \in DOMAIN c.units :
              /\ c.units[i].wrapper = "returned"
              /\ c.delivered[k] = _result_tuple(c.units[i])
              /\ c.delivered[k][2] =
                    ReturnValue(handlers[i], c.fit.args, c.fit.kwargs)

\* C25: two fire calls under way on one async event have each their own
\* units, one per handler and call; no step of one call changes the
\* iterator, the units or the results of the other, and whatever one call
\* has come to, the other can be advanced, its units can start and finish
\* and their pairs can be received.
C25_ConcurrentFiresIndependent ==
    /\ []((fit.state # "none" /\ other.fit.state # "none") =>
            /\ OwnUnits([fit |-> fit, units |-> units, delivered |-> delivered])
            /\ OwnUnits(other)
            /\ other.fit.state = "open" => ENABLED OtherIterNext
            /\ \A i \in DOMAIN other.units :
                  /\ other.units[i].f = "scheduled" => ENABLED OtherUnitStart(i)
                  /\ other.units[i].f = "running" => ENABLED OtherUnitFinish(i)
                  /\ (other.units[i].f \in {"done", "failed"}
                        /\ other.units[i].wrapper = "created")
                        => ENABLED OtherAwait(i)
            /\ \A i \in DOMAIN units :
                  /\ units[i].f = "scheduled" => ENABLED UnitStart(i)
                  /\ units[i].f = "running" => ENABLED UnitFinish(i))
    /\ [][other.fit.state # "none" =>
            /\ other' # other =>
                  (fit' = fit /\ units' = units /\ delivered' = delivered)
            /\ (fit' # fit \/ units' # units \/ delivered' # delivered) =>
                  other' = other]_vars

C25_Witness ==
    /\ handlers = <<"test", "atest">>
    /\ fit.waiting = 1
    /\ units[1].f = "running"
    /\ other.fit.state = "exhausted"
    /\ Len(other.delivered) = 2
    /\ other.fit.kwargs # fit.kwargs

(***************************************************************************)
(* Properties of Dispatch.                                                 *)
(***************************************************************************)
\* C26: after Dispatch(event_names=names) and after add_events(names),
\* every name of names is a key of the events mapping of the dispatch.
C26_GivenNamesAreEvents ==
    dispatch.ret.op \in {"init", "add_events"} =>
        dispatch.ret.names \subseteq DOMAIN dispatch.events

C26_Witness ==
    /\ dispatch.ret.op = "add_events"
    /\ dispatch.ret.names = {"on_x", "on_y"}
    /\ "on_echo" \in DOMAIN dispatch.events
    /\ Len(dispatch.events["on_x"]) = 1

\* the events of the dispatch d that hold a bound method of the object o
MethodsHeld(d, o) ==
    {n \in DOMAIN d.events :
        \E i \in DOMAIN d.events[n] : d.events[n][i].v[1] = o}

\* C27: remove(o) of a registered handler object o succeeds; afterwards o is
\* not in the list of handlers and no event holds a bound method of o.
C27_RemoveDetachesHandler ==
    [][(dispatch'.ret.op = "remove"
            /\ dispatch'.ret.handler \in Range(dispatch.handlers)) =>
          /\ dispatch'.ret.err = "none"
          /\ dispatch'.ret.handler \notin Range(dispatch'.handlers)
          /\ MethodsHeld(dispatch', dispatch'.ret.handler) = {}]_vars

\* the methods named `name` of the handler objects hs, one per registration
RECURSIVE MethodsNamed(_, _)
MethodsNamed(hs, name) ==
    IF hs = <<>> THEN <<>>
    ELSE (IF name \in MethodsOf(Head(hs))
          THEN <<BoundMethod(Head(hs), name)>> ELSE <<>>)
         \o MethodsNamed(Tail(hs), name)

\* C28: fire(name, arg) for a name that has no event, with
\* create_events_on_fire, makes the event, attaches the method of that name
\* of every registered handler object, once per registration, and returns
\* the (bound method, result) pairs of these methods.
C28_FireCreatesAndAttaches ==
    [][(dispatch'.ret.op = "fire"
            /\ dispatch'.ret.name \notin DOMAIN dispatch.events
            /\ dispatch.create_events_on_fire) =>
          LET name == dispatch'.ret.name
              ms == MethodsNamed(dispatch.handlers, name)
          IN  /\ dispatch'.ret.err = "none"
              /\ name \in DOMAIN dispatch'.events
              /\ dispatch'.events[name] = ms
              /\ dispatch'.ret.value =
                    PyList([i \in DOMAIN ms |-> <<ms[i], dispatch'.ret.flag>>])
              /\ dispatch'.handlers = dispatch.handlers
              /\ \A n \in DOMAIN dispatch.events :
                    dispatch'.events[n] = dispatch.events[n]]_vars

C28_Witness ==
    /\ dispatch.ret.op = "fire"
    /\ dispatch.ret.name = "on_echo"
    /\ dispatch.create_events_on_fire
    /\ dispatch.handlers = <<"h1", "h1">>
    /\ DOMAIN dispatch.events = internal_events \cup {"on_echo"}
    /\ Len(dispatch.ret.value.v) = 2

\* C29: add(o) of an object already in the list of handlers raises
\* ValueError and changes neither the list nor an event; with
\* allow_dupe=True it appends o again and attaches each of its event
\* methods once more.
C29_DuplicateHandlerObject ==
    [][(dispatch'.ret.op = "add"
            /\ dispatch'.ret.handler \in Range(dispatch.handlers)) =>
          LET o == dispatch'.ret.handler
          IN  IF ~dispatch'.ret.flag
              THEN /\ dispatch'.ret.err = "ValueError"
                   /\ dispatch'.handlers = dispatch.handlers
                   /\ dispatch'.events = dispatch.events
              ELSE /\ dispatch'.ret.err = "none"
                   /\ dispatch'.handlers = Append(dispatch.handlers, o)
                   /\ DOMAIN dispatch'.events = DOMAIN dispatch.events
                   /\ \A n \in DOMAIN dispatch.events :
                         dispatch'.events[n] =
                            IF n \in MethodsOf(o)
                            THEN Append(dispatch.events[n], BoundMethod(o, n))
                            ELSE dispatch.events[n]]_vars

C29_Witness ==
    /\ dispatch.ret.op = "add"
    /\ dispatch.ret.err = "ValueError"
    /\ dispatch.ret.handler = "h1"
    /\ dispatch.handlers = <<"h1", "h1">>
    /\ "on_x" \in DOMAIN dispatch.events
    /\ dispatch.events["on_x"] = <<BoundMethod("h1", "on_x"), BoundMethod("h1", "on_x")>>

(***************************************************************************)
(* The reverse index of the priority container.                            *)
(***************************************************************************)
\* C30: in every state that add and remove calls lead to, weakmap has an
\* entry for a handler exactly when a list of map holds the handler, and the
\* entry names a priority whose list holds it.
C30_ReverseIndexMatchesForward ==
    cls = "PriorityEvent" =>
        \A h \in Handlers :
            /\ h \in DOMAIN weakmap <=> PrioritiesOf(h) # {}
            /\ h \in DOMAIN weakmap => weakmap[h] \in PrioritiesOf(h)

\* C31: in every state that add and remove calls lead to, no priority of
\* map has an empty list, so iter_handlers_by_priority gives no priority
\* without a handler.
C31_NoEmptyPriority ==
    cls = "PriorityEvent" =>
        /\ \A p \in DOMAIN map : map[p] # <<>>
        /\ \A i \in DOMAIN iter_handlers_by_priority(map) :
              Len(iter_handlers_by_priority(map)[i][2]) > 0

C31_Witness ==
    /\ cls = "PriorityEvent"
    /\ ret.op = "remove"
    /\ ret.err = "none"
    /\ ret.h = "f"
    /\ map = (500 :> <<"g">>)
    /\ weakmap = [x \in {"g"} |-> 500]

(***************************************************************************)
(* The stream of as_completed.                                             *)
(***************************************************************************)
\* C32: the stream of as_completed yields once for each handler that the
\* fire call had left, none missing and none twice, a handler that returned
\* giving its pair; it ends after that, and once it has ended it yields
\* nothing more.
C32_StreamFiniteSinglePass ==
    /\ [](agg.kind = "as_completed" =>
            /\ \A j, k \in DOMAIN agg.yielded :
                  agg.yielded[j] = agg.yielded[k] => j = k
            /\ Range(agg.yielded) \subseteq Members(agg)
            /\ \A i \in Members(agg) : units[i].h = handlers[i]
            /\ agg.from = 0 => Members(agg) = DOMAIN handlers
            /\ \A k \in DOMAIN agg.yielded :
                  units[agg.yielded[k]].f = "done"
                      => _result_tuple(units[agg.yielded[k]]) \in Range(delivered)
            /\ agg.state = "exhausted" => Range(agg.yielded) = Members(agg))
    /\ [][(agg.kind = "as_completed" /\ agg.state = "exhausted"
              /\ agg'.kind = "as_completed") =>
            /\ agg'.state = "exhausted"
            /\ agg'.yielded = agg.yielded
            /\ \A i \in Members(agg) : units'[i] = units[i]]_vars

C32_Witness ==
    /\ agg.kind = "as_completed"
    /\ agg.state = "exhausted"
    /\ agg.from = 0
    /\ Len(handlers) = 3
    /\ agg.yielded = <<3, 1, 2>>
    /\ Len(delivered) = 3

(***************************************************************************)
(* Awaiting a whole fire.                                                  *)
(***************************************************************************)
\* C33: when every handler comes to an end, a gather or a wait on the
\* result of an async fire comes to an end too: the caller gets its value
\* or an exception, unless a new fire call has taken its place.
C33_AggregationCompletes ==
    [](agg.kind \in {"gather", "wait"} =>
          <>(agg.kind \notin {"gather", "wait"}
                \/ agg.state \in {"returned", "raised"}))

(***************************************************************************)
(* What the events of a Dispatch hold.                                     *)
(***************************************************************************)
\* C34: after any add, add_events with at least one name and fire, the
\* event of every name holds the method of that name of a handler object as
\* many times as the object is in the list of handlers, whichever of the
\* two was added first.
C34_AttachedOncePerRegistration ==
    \A e \in DOMAIN dispatch.events : \A o \in HandlerObjects :
        e \in MethodsOf(o) =>
            Count(dispatch.events[e], BoundMethod(o, e))
                = Count(dispatch.handlers, o)

C34_Witness ==
    /\ dispatch.ret.op = "add"
    /\ dispatch.ret.flag
    /\ dispatch.handlers = <<"h1", "h1">>
    /\ dispatch.events["on_handler_add"] = <<>>
    /\ "on_x" \in DOMAIN dispatch.events
    /\ "on_echo" \in DOMAIN dispatch.events
    /\ Len(dispatch.events["on_x"]) = 2
    /\ Len(dispatch.events["on_echo"]) = 2

\* C35: add_events with an empty list of names changes nothing of the
\* dispatch: no event is made and every event holds what it held.
C35_AddNoEventsChangesNothing ==
    [][(dispatch'.ret.op = "add_events" /\ dispatch'.ret.names = {}) =>
          /\ dispatch'.ret.err = "none"
          /\ dispatch'.handlers = dispatch.handlers
          /\ DOMAIN dispatch'.events = DOMAIN dispatch.events
          /\ \A n \in DOMAIN dispatch.events :
                dispatch'.events[n] = dispatch.events[n]]_vars

(***************************************************************************)
(* Removing a handler while a lazy fire is being consumed.                 *)
(***************************************************************************)
\* the handlers that the generator g of ifire has still to invoke when the
\* list of handlers is hs: those behind the position of its list iterator
StillToInvoke(g, hs) == SubSeq(hs, g.idx + 1, Len(hs))

\* the position of the handler that list.remove(h) takes out of hs
FirstIndex(hs, h) ==
    CHOOSE j \in DOMAIN hs : hs[j] = h /\ \A k \in 1..(j - 1) : hs[k] # h

\* C36: when a handler that a lazy fire has invoked already is removed
\* between two steps of its consumption, the handlers the lazy fire has
\* still to invoke are the ones it had still to invoke before: none of them
\* is skipped and none is invoked again.
C36_RemovalKeepsRemainingHandlers ==
    [][(/\ cls = "Event"
        /\ gen.state = "suspended"
        /\ ~gen.dirty
        /\ ret'.op = "remove"
        /\ ret'.err = "none"
        /\ FirstIndex(handlers, ret'.h) <= gen.idx) =>
          StillToInvoke(gen', handlers') = StillToInvoke(gen, handlers)]_vars

====
